---- MODULE Spec2Model ----
(***************************************************************************)
(* Model of the health-care backend: the admin-creation service            *)
(* (user.service.ts createAdmin and its controller) and the admin listing  *)
(* service (admin.service.ts getAllFromDB and its controllers), over a     *)
(* relational store reached through the Prisma client.                     *)
(*                                                                         *)
(* JavaScript values are tagged records: [t |-> "str", v |-> <<chars>>] is *)
(* a string (a sequence of one-character strings), [t |-> "undef"] the     *)
(* value undefined, [t |-> "arr"] an array (what Express's query parser    *)
(* yields for a repeated parameter), [t |-> "obj", v |-> f] an object.     *)
(***************************************************************************)
EXTENDS Naturals, Integers, Sequences, FiniteSets, TLC

VARIABLES
  users,     \* committed rows of the user table
  admins,    \* committed rows of the admin table
  req,       \* the HTTP requests being served, one per slot
  params,    \* SpecFilter: the mapping handed to AdminService.getAllFromDB
  fwhere,    \* SpecFilter: the where input the service built
  fout,      \* SpecFilter: what the service returned or threw
  fpc        \* SpecFilter: "call" before the service ran, "done" after

vars == <<users, admins, req, params, fwhere, fout, fpc>>

\* ------------------------------------------------------------- bounds
NReq == 2          \* request slots served concurrently
MaxTermLen == 2    \* longest searchTerm drawn in SpecFilter

\* ------------------------------------------------------- program constants
OK == 200
INTERNAL_SERVER_ERROR == 500

\* ------------------------------------------------------------ JS values
Str(s) == [t |-> "str", v |-> s]
Undef == [t |-> "undef", v |-> <<>>]
Arr == [t |-> "arr", v |-> <<>>]
Obj(f) == [t |-> "obj", v |-> f]

\* Variant of Truthy: tests only that the value is defined.
TruthyDefined(x) == x.t # "undef"

\* JavaScript truthiness of a query value: undefined and "" are falsy.
Truthy(x) == ~(x.t = "undef" \/ (x.t = "str" /\ x.v = <<>>))

\* obj[key] of a JS object held as a function: undefined when key is absent.
Get(f, key) == IF key \in DOMAIN f THEN f[key] ELSE Undef

\* ------------------------------------------------------------- errors
NoErr == [isError |-> FALSE, name |-> "", message |-> ""]
ErrHash == [isError |-> TRUE, name |-> "Error",
            message |-> "data and salt arguments required"]
ErrTypeError == [isError |-> TRUE, name |-> "TypeError",
                 message |-> "Cannot read properties of undefined"]
ErrValidation == [isError |-> TRUE, name |-> "PrismaClientValidationError",
                  message |-> "Invalid invocation"]
ErrUnknownArg == [isError |-> TRUE, name |-> "PrismaClientValidationError",
                  message |-> "Unknown argument"]
ErrUnique == [isError |-> TRUE, name |-> "PrismaClientKnownRequestError",
              message |-> "Unique constraint failed on the fields: (email)"]
ErrConnection == [isError |-> TRUE, name |-> "PrismaClientKnownRequestError",
                  message |-> "Can't reach database server"]

\* ------------------------------------------------------------- schema
\* The Admin model's columns; all are required strings.
AdminSchemaFields == {"name", "email", "contactNumber"}

\* --------------------------------------------------- strings and matching
Lower(c) == CASE c = "J" -> "j"
              [] c = "O" -> "o"
              [] c = "A" -> "a"
              [] OTHER -> c

LowerStr(s) == [i \in 1..Len(s) |-> Lower(s[i])]

\* needle occurs in hay as a contiguous run.
Contains(hay, needle) ==
  \E i \in 0..(Len(hay) - Len(needle)) :
    SubSeq(hay, i + 1, i + Len(needle)) = needle

\* Prisma's {contains: term, mode: "insensitive"} on a string column.
ContainsInsensitive(val, term) == Contains(LowerStr(val.v), LowerStr(term.v))

\* Prisma's {equals: value}: a value of undefined leaves the column free.
EqualsFilter(val, value) == value.t = "undef" \/ val = value

\* ------------------------------------------------ AdminService.getAllFromDB
adminSearchableFields == {"name", "email"}

\* const { searchTerm, ...rest } = params
Rest(p) == [k \in (DOMAIN p) \ {"searchTerm"} |-> p[k]]

\* Variant of SearchCondition: the searchable fields joined by AND.
SearchConditionAllFields(p) ==
  IF Truthy(Get(p, "searchTerm"))
  THEN {[op |-> "AND",
         conds |-> {[field |-> f, kind |-> "contains",
                     value |-> Get(p, "searchTerm"), mode |-> "insensitive"]
                    : f \in adminSearchableFields}]}
  ELSE {}

\* if (params.searchTerm) addCondition.push({OR: [...contains...]})
SearchCondition(p) ==
  IF Truthy(Get(p, "searchTerm"))
  THEN {[op |-> "OR",
         conds |-> {[field |-> f, kind |-> "contains",
                     value |-> Get(p, "searchTerm"), mode |-> "insensitive"]
                    : f \in adminSearchableFields}]}
  ELSE {}

\* if (Object.keys(rest).length > 0) addCondition.push({AND: [...equals...]})
RestCondition(p) ==
  IF Cardinality(DOMAIN Rest(p)) > 0
  THEN {[op |-> "AND",
         conds |-> {[field |-> k, kind |-> "equals",
                     value |-> Rest(p)[k], mode |-> "default"]
                    : k \in DOMAIN Rest(p)}]}
  ELSE {}

\* whereConditions = {AND: addCondition}
WhereConditions(p) == [AND |-> SearchCondition(p) \cup RestCondition(p)]

\* Prisma validates the where input against the Admin model before querying.
CondValid(c) ==
  /\ c.field \in AdminSchemaFields
  /\ c.value.t \in (IF c.kind = "equals" THEN {"str", "undef"} ELSE {"str"})

WhereError(w) ==
  IF \E cl \in w.AND : \E c \in cl.conds : c.field \notin AdminSchemaFields
  THEN ErrUnknownArg
  ELSE ErrValidation

WhereValid(w) == \A cl \in w.AND : \A c \in cl.conds : CondValid(c)

CondHolds(c, row) ==
  IF c.kind = "contains"
  THEN ContainsInsensitive(row[c.field], c.value)
  ELSE EqualsFilter(row[c.field], c.value)

ClauseHolds(cl, row) ==
  IF cl.op = "OR"
  THEN \E c \in cl.conds : CondHolds(c, row)
  ELSE \A c \in cl.conds : CondHolds(c, row)

\* prisma.admin.findMany({where}) over the rows an observer can read.
FindMany(table, w) == {row \in table : \A cl \in w.AND : ClauseHolds(cl, row)}

\* The whole service call on argument arg (an object, or undefined when the
\* caller passes nothing): the where input it builds and its outcome.
\* Destructuring undefined throws a TypeError before anything is built.
GetAllFromDB(arg, table) ==
  IF arg.t # "obj"
  THEN [ok |-> FALSE, where |-> [AND |-> {}], rows |-> {}, err |-> ErrTypeError]
  ELSE LET w == WhereConditions(arg.v) IN
       IF WhereValid(w)
       THEN [ok |-> TRUE, where |-> w, rows |-> FindMany(table, w), err |-> NoErr]
       ELSE [ok |-> FALSE, where |-> w, rows |-> {}, err |-> WhereError(w)]

\* ------------------------------------------------------ inputs (SpecFilter)
AdminRow(name, email, contact) ==
  [name |-> Str(name), email |-> Str(email), contactNumber |-> Str(contact)]

NameJo == <<"J", "o">>
NameJoLower == <<"j", "o">>
NameAl == <<"A", "l">>
EmailA == <<"a", "@", "x">>
EmailJo == <<"j", "o", "@", "x">>
EmailO == <<"o", "@", "x">>
EmailL == <<"l", "@", "x">>
Contact1 == <<"1">>
Contact2 == <<"2">>

\* Admin rows the listing is checked on; their emails differ, as the rows of
\* createAdmin calls do.
Pool == {AdminRow(NameJo, EmailA, Contact1),
         AdminRow(NameAl, EmailJo, Contact1),
         AdminRow(NameJo, EmailO, Contact2),
         AdminRow(NameJoLower, EmailL, Contact2)}

TermChars == {"j", "J", "o", "a"}
Terms == UNION {[1..k -> TermChars] : k \in 0..MaxTermLen}

\* A key left out of the mapping.
Absent == [t |-> "absent", v |-> <<>>]

SearchOpts == {Absent, Undef, Arr} \cup {Str(s) : s \in Terms}
NameOpts == {Absent, Undef, Arr, Str(NameJo), Str(NameJoLower)}
EmailOpts == {Absent, Str(EmailA), Str(EmailO)}
ContactOpts == {Absent, Undef, Str(Contact2)}
UnknownOpts == {Absent, Str(<<"x">>)}

MkParams(s, n, e, c, u) ==
  LET all == [k \in {"searchTerm", "name", "email", "contactNumber", "age"} |->
                CASE k = "searchTerm" -> s
                  [] k = "name" -> n
                  [] k = "email" -> e
                  [] k = "contactNumber" -> c
                  [] OTHER -> u]
  IN [k \in {x \in DOMAIN all : all[x] # Absent} |-> all[k]]

ParamSpace ==
  {MkParams(s, n, e, c, u) : s \in SearchOpts, n \in NameOpts, e \in EmailOpts,
                             c \in ContactOpts, u \in UnknownOpts}

\* ------------------------------------------------------- request slots
Slots == 1..NReq

NoBody == [password |-> Undef, admin |-> Undef]
EmptyQuery == [k \in {} |-> Undef]

\* A slot before its request arrives. pendingUser/pendingAdmin are the rows its
\* open transaction has written; sent is the responses written to the socket.
\* History fields: wroteUser/wroteAdmin (rows of this call that persist),
\* dupAtStart, failedAt, seenUsers/seenAdmins/sawInFlight (what the store
\* showed a listing when it read), err (what the service call threw).
IdleReq == [kind |-> "none", pc |-> "idle", body |-> NoBody, query |-> EmptyQuery,
            hashed |-> Undef, pendingUser |-> {}, pendingAdmin |-> {},
            wroteUser |-> {}, wroteAdmin |-> {}, dupAtStart |-> FALSE,
            failedAt |-> "", seenUsers |-> {}, seenAdmins |-> {},
            sawInFlight |-> FALSE, err |-> NoErr, sent |-> <<>>]

\* ---------------------------------------------------------- SpecFilter
InitFilter ==
  /\ users = {}
  /\ admins \in SUBSET Pool
  /\ req = [i \in Slots |-> IdleReq]
  /\ params \in ParamSpace
  /\ fwhere = [AND |-> {}]
  /\ fout = [ok |-> FALSE, rows |-> {}, err |-> NoErr]
  /\ fpc = "call"

\* One call of AdminService.getAllFromDB(params) on the admin table.
CallGetAllFromDB ==
  /\ fpc = "call"
  /\ LET r == GetAllFromDB(Obj(params), admins) IN
       /\ fwhere' = r.where
       /\ fout' = [ok |-> r.ok, rows |-> r.rows, err |-> r.err]
  /\ fpc' = "done"
  /\ UNCHANGED <<users, admins, req, params>>

NextFilter == CallGetAllFromDB

SpecFilter == InitFilter /\ [][NextFilter]_vars

\* ------------------------------------------------- claims on the filter
SameLetter(a, b) ==
  a = b \/ {a, b} \in {{"j", "J"}, {"o", "O"}, {"a", "A"}}

\* t is a case-insensitive substring of s, letter by letter.
IsSubstrCI(t, s) ==
  \E k \in 0..Len(s) :
    /\ k + Len(t) <= Len(s)
    /\ \A j \in 1..Len(t) : SameLetter(t[j], s[k + j])

FilterKeys == {"name", "email", "contactNumber"}

\* The field filters that are given: present with a value.
GivenKeys(p) == {k \in (DOMAIN p) \ {"searchTerm"} : p[k].t # "undef"}

SearchGiven(p) == "searchTerm" \in DOMAIN p /\ p["searchTerm"].t # "undef"

\* The mapping holds only the listing's keys, with string (or undefined) values.
WellFormed(p) ==
  /\ DOMAIN p \subseteq FilterKeys \cup {"searchTerm"}
  /\ \A k \in DOMAIN p : p[k].t \in {"str", "undef"}

ExpectedRows(p, table) ==
  {r \in table :
     /\ \/ ~SearchGiven(p)
        \/ IsSubstrCI(p["searchTerm"].v, r.name.v)
        \/ IsSubstrCI(p["searchTerm"].v, r.email.v)
     /\ \A k \in GivenKeys(p) : r[k].v = p[k].v}

\* C2: for every well-formed combination of searchTerm and field filters and
\* every admin collection, getAllFromDB returns exactly the rows r with
\* (searchTerm absent or a case-insensitive substring of r.name or r.email)
\* and (r equal to the given value on every given filter key).
C2_FilterCorrectness ==
  (fpc = "done" /\ WellFormed(params)) =>
    (fout.ok /\ fout.rows = ExpectedRows(params, admins))

C2_Witness ==
  /\ fpc = "done" /\ WellFormed(params) /\ fout.ok
  /\ SearchGiven(params) /\ params["searchTerm"].v # <<>>
  /\ GivenKeys(params) # {}
  /\ fout.rows # {} /\ fout.rows # admins
  /\ \E r \in admins \ fout.rows : IsSubstrCI(params["searchTerm"].v, r.name.v)

EmptySearchTerm(p) ==
  \/ "searchTerm" \notin DOMAIN p
  \/ p["searchTerm"] = Undef
  \/ p["searchTerm"] = Str(<<>>)

\* C5: with searchTerm empty or absent the where input holds no contains
\* clause; the result is the rows passing the exact-match clause when there is
\* one, and the whole admin collection when there is none.
C5_EmptySearchTermGuard ==
  (fpc = "done" /\ EmptySearchTerm(params)) =>
    /\ \A cl \in fwhere.AND : cl.op # "OR" /\ \A c \in cl.conds : c.kind # "contains"
    /\ (DOMAIN Rest(params) = {}) => (fwhere.AND = {} /\ fout.ok /\ fout.rows = admins)
    /\ fout.ok =>
         fout.rows = {r \in admins : \A cl \in fwhere.AND : \A c \in cl.conds :
                        c.value.t = "undef" \/ r[c.field] = c.value}

C5_Witness ==
  /\ fpc = "done" /\ fout.ok
  /\ "searchTerm" \in DOMAIN params /\ params["searchTerm"] = Str(<<>>)
  /\ GivenKeys(params) # {}
  /\ fout.rows # {} /\ fout.rows # admins

\* C10: a key other than searchTerm whose value is undefined contributes no
\* condition to the exact-match clause, and when every such key is undefined
\* or absent no exact-match clause is added at all.
C10_UndefinedExcluded ==
  (fpc = "done") =>
    /\ \A cl \in fwhere.AND : \A c \in cl.conds :
         c.kind = "equals" => c.value.t # "undef"
    /\ (GivenKeys(params) = {}) => (\A cl \in fwhere.AND : cl.op # "AND")

\* --------------------------------------------------- responses (controllers)
SuccessEnvelope(msg, data) ==
  [status |-> OK, body |-> [status |-> OK, message |-> msg, data |-> data]]

\* Variant of ErrorEnvelope: the error body sent with status 200.
ErrorEnvelopeStatusOk(err, fallback) ==
  [status |-> OK,
   body |-> [success |-> FALSE,
             message |-> IF err.name # "" THEN err.name ELSE fallback,
             error |-> err.message]]

\* The catch block: err.name (or the fallback) and err.message for an Error,
\* the fallback and the thrown value itself otherwise.
ErrorEnvelope(err, fallback) ==
  IF err.isError
  THEN [status |-> INTERNAL_SERVER_ERROR,
        body |-> [success |-> FALSE,
                  message |-> IF err.name # "" THEN err.name ELSE fallback,
                  error |-> err.message]]
  ELSE [status |-> INTERNAL_SERVER_ERROR,
        body |-> [success |-> FALSE, message |-> fallback, error |-> err]]

\* What the HTTP framework itself answers when a handler's promise rejects
\* and the framework forwards the rejection to its default error handler.
DefaultErrorPage == [status |-> INTERNAL_SERVER_ERROR, body |-> [html |-> "TypeError"]]

\* ---------------------------------------------------- userService.createAdmin
Salts == {"s1", "s2"}

\* bcrypt.hash(password, 10): rejects unless the data is a string; the result
\* carries the version, the cost and the random salt.
HashFails(pw) == pw.t # "str"
Hash(pw, salt) == Str(<<"$2b$10$", salt>> \o pw.v)

\* Variant of UserData: the plaintext password stored.
UserDataPlaintext(data, hashed) ==
  [email |-> Get(data.admin.v, "email"), password |-> data.password, role |-> "ADMIN"]

\* Variant of UserData: another role of the enumeration.
UserDataPatientRole(data, hashed) ==
  [email |-> Get(data.admin.v, "email"), password |-> hashed, role |-> "PATIENT"]

\* userData = {email: data.admin.email, password: hashedPassword, role: ADMIN}
UserData(data, hashed) ==
  [email |-> Get(data.admin.v, "email"), password |-> hashed, role |-> "ADMIN"]

\* adminData = {...data.admin}
AdminData(data) == data.admin.v

\* The client validates both create calls against the schema before the
\* batch is sent.
UserCreateValid(u) == u.email.t = "str" /\ u.password.t = "str"
AdminCreateValid(a) ==
  DOMAIN a = AdminSchemaFields /\ \A k \in DOMAIN a : a[k].t = "str"

\* User.email is unique.
UniqueViolated(table, row) == \E u \in table : u.email = row.email

\* Variant of RolledBack: two separate writes with no transaction around them.
NotRolledBack(pending) == pending

\* Variant of TxVisible: other connections read uncommitted rows.
ReadUncommitted(committed, pending) == committed \cup pending

\* prisma.$transaction([...]): the rows a transaction has written that
\* persist when the transaction fails, and what other connections read while
\* it is open.
RolledBack(pending) == {}
TxVisible(committed, pending) == committed

AllPendingUsers == UNION {req[j].pendingUser : j \in Slots}
AllPendingAdmins == UNION {req[j].pendingAdmin : j \in Slots}
VisibleUsers == TxVisible(users, AllPendingUsers)
VisibleAdmins == TxVisible(admins, AllPendingAdmins)

\* The service call rejects with e at stage st: the transaction (if open) is
\* rolled back, and the controller's catch block answers.
FailCreate(i, e, st) ==
  /\ users' = users \cup RolledBack(req[i].pendingUser)
  /\ admins' = admins \cup RolledBack(req[i].pendingAdmin)
  /\ req' = [req EXCEPT ![i] =
       [@ EXCEPT !.pc = "done", !.err = e, !.failedAt = st,
                 !.wroteUser = RolledBack(req[i].pendingUser),
                 !.wroteAdmin = RolledBack(req[i].pendingAdmin),
                 !.pendingUser = {}, !.pendingAdmin = {},
                 !.sent = Append(@, ErrorEnvelope(e, "Failed to create Admin"))]]

PasswordOpts == {Str(<<"p">>), Undef}
AdminOpts ==
  {Obj(AdminRow(NameJo, EmailA, Contact1)),
   Obj(AdminRow(NameAl, EmailA, Contact2)),
   Obj(AdminRow(NameAl, EmailO, Contact1)),
   Obj([name |-> Str(NameJo), contactNumber |-> Str(Contact1)]),
   Obj([name |-> Str(NameJo), email |-> Str(EmailO),
        contactNumber |-> Str(Contact1), age |-> Str(<<"x">>)]),
   Undef}
Bodies == [password : PasswordOpts, admin : AdminOpts]

\* POST /api/v1/users arrives with req.body = data; the service hashes the
\* password, builds both records and hands the batch to the client.
CreateAdminStart(i, data, salt) ==
  /\ req[i].pc = "idle"
  /\ LET dup == data.admin.t = "obj"
                /\ \E u \in users : u.email = Get(data.admin.v, "email")
         r0 == [req EXCEPT ![i] = [@ EXCEPT !.kind = "create", !.body = data,
                                             !.dupAtStart = dup]]
         fail(e) ==
           /\ req' = [r0 EXCEPT ![i] =
                [@ EXCEPT !.pc = "done", !.err = e, !.failedAt = "start",
                          !.sent = Append(@, ErrorEnvelope(e, "Failed to create Admin"))]]
           /\ UNCHANGED <<users, admins>>
     IN
       IF HashFails(data.password) THEN fail(ErrHash)
       ELSE IF data.admin.t # "obj" THEN fail(ErrTypeError)
       ELSE IF ~(UserCreateValid(UserData(data, Hash(data.password, salt)))
                 /\ AdminCreateValid(AdminData(data)))
            THEN fail(ErrValidation)
       ELSE /\ req' = [r0 EXCEPT ![i] =
                 [@ EXCEPT !.pc = "txUser", !.hashed = Hash(data.password, salt)]]
            /\ UNCHANGED <<users, admins>>
  /\ UNCHANGED <<params, fwhere, fout, fpc>>

\* prisma.user.create({data: userData}) inside the transaction. A concurrent
\* open transaction holding the same email makes the insert wait.
TxUser(i, dbUp) ==
  /\ req[i].pc = "txUser"
  /\ LET u == UserData(req[i].body, req[i].hashed) IN
       IF ~dbUp THEN FailCreate(i, ErrConnection, "txUser")
       ELSE IF UniqueViolated(VisibleUsers, u) THEN FailCreate(i, ErrUnique, "txUser")
       ELSE /\ ~\E j \in Slots \ {i} : UniqueViolated(req[j].pendingUser, u)
            /\ req' = [req EXCEPT ![i] =
                         [@ EXCEPT !.pc = "txAdmin", !.pendingUser = {u}]]
            /\ UNCHANGED <<users, admins>>
  /\ UNCHANGED <<params, fwhere, fout, fpc>>

\* prisma.admin.create({data: adminData}) inside the transaction.
TxAdmin(i, dbUp) ==
  /\ req[i].pc = "txAdmin"
  /\ IF ~dbUp THEN FailCreate(i, ErrConnection, "txAdmin")
     ELSE /\ req' = [req EXCEPT ![i] =
                [@ EXCEPT !.pc = "txCommit",
                          !.pendingAdmin = {AdminData(req[i].body)}]]
          /\ UNCHANGED <<users, admins>>
  /\ UNCHANGED <<params, fwhere, fout, fpc>>

\* The transaction commits, the service returns both created rows and the
\* controller answers.
TxCommit(i, dbUp) ==
  /\ req[i].pc = "txCommit"
  /\ IF ~dbUp THEN FailCreate(i, ErrConnection, "txCommit")
     ELSE /\ users' = users \cup req[i].pendingUser
          /\ admins' = admins \cup req[i].pendingAdmin
          /\ req' = [req EXCEPT ![i] =
                [@ EXCEPT !.pc = "done",
                          !.wroteUser = req[i].pendingUser,
                          !.wroteAdmin = req[i].pendingAdmin,
                          !.pendingUser = {}, !.pendingAdmin = {},
                          !.sent = Append(@, SuccessEnvelope(
                             "Admin Created Successfully!",
                             [createdUserData |-> UserData(req[i].body, req[i].hashed),
                              createdAdminData |-> AdminData(req[i].body)]))]]
  /\ UNCHANGED <<params, fwhere, fout, fpc>>

\* ---------------------------------------------- AdminController.getAllFromDB
\* Variant of SafeQueryKeys: a key that is no column of Admin let through.
SafeQueryKeysWithAge == {"name", "email", "searchTerm", "contactNumber", "age"}

SafeQueryKeys == {"name", "email", "searchTerm", "contactNumber"}

\* pick(obj, keys): the own properties of obj among keys.
Pick(obj, keys) == [k \in (DOMAIN obj) \cap keys |-> obj[k]]

ListQueries ==
  {MkParams(Absent, Absent, Absent, Absent, Absent),
   MkParams(Str(NameJoLower), Absent, Absent, Absent, Absent),
   MkParams(Absent, Str(NameAl), Absent, Absent, Absent),
   MkParams(Absent, Arr, Absent, Absent, Absent),
   MkParams(Absent, Absent, Absent, Absent, Str(<<"x">>)),
   MkParams(Absent, Str(NameJo), Absent, Absent, Str(<<"x">>))}

\* GET /api/v1/admins served by the handler with the try/catch.
ListAdmins(i, query, dbUp) ==
  /\ req[i].pc = "idle"
  /\ LET safeQuery == Pick(query, SafeQueryKeys)
         r == GetAllFromDB(Obj(safeQuery), VisibleAdmins)
         e == IF ~r.ok THEN r.err ELSE IF ~dbUp THEN ErrConnection ELSE NoErr
     IN req' = [req EXCEPT ![i] =
          [@ EXCEPT !.kind = "list", !.pc = "done", !.query = query, !.err = e,
                    !.seenUsers = VisibleUsers, !.seenAdmins = VisibleAdmins,
                    !.sawInFlight = (AllPendingUsers # {}),
                    !.sent = Append(@,
                       IF e = NoErr
                       THEN SuccessEnvelope("Admins Fetched Successfully!", r.rows)
                       ELSE ErrorEnvelope(e, "Failed to fetch Admins"))]]
  /\ UNCHANGED <<users, admins, params, fwhere, fout, fpc>>

\* GET /api/v1/admins served by the handler without try/catch, which calls
\* the service with no argument. The rejection is not handled by the handler:
\* either nothing is ever written to the response, or the framework answers
\* with its own error page.
ListAdminsUnguarded(i, query, forwarded) ==
  /\ req[i].pc = "idle"
  /\ LET r == GetAllFromDB(Undef, VisibleAdmins) IN
       req' = [req EXCEPT ![i] =
         [@ EXCEPT !.kind = "listUnguarded", !.pc = "done", !.query = query,
                   !.err = r.err,
                   !.sent = IF r.ok
                            THEN Append(@, SuccessEnvelope("Admins Fetched Successfully!", r.rows))
                            ELSE IF forwarded THEN Append(@, DefaultErrorPage)
                            ELSE @]]
  /\ UNCHANGED <<users, admins, params, fwhere, fout, fpc>>

\* ---------------------------------------------------------------- Spec
Init ==
  /\ users = {}
  /\ admins = {}
  /\ req = [i \in Slots |-> IdleReq]
  /\ params = EmptyQuery
  /\ fwhere = [AND |-> {}]
  /\ fout = [ok |-> FALSE, rows |-> {}, err |-> NoErr]
  /\ fpc = "off"

Next ==
  \E i \in Slots :
    \/ \E data \in Bodies, salt \in Salts : CreateAdminStart(i, data, salt)
    \/ \E dbUp \in BOOLEAN : TxUser(i, dbUp)
    \/ \E dbUp \in BOOLEAN : TxAdmin(i, dbUp)
    \/ \E dbUp \in BOOLEAN : TxCommit(i, dbUp)
    \/ \E query \in ListQueries, dbUp \in BOOLEAN : ListAdmins(i, query, dbUp)
    \/ \E query \in ListQueries, forwarded \in BOOLEAN :
         ListAdminsUnguarded(i, query, forwarded)

Spec == Init /\ [][Next]_vars

\* ------------------------------------------------- claims on the server
EmailsOf(table) == {r.email : r \in table}
Paired(us, as) == EmailsOf(us) = EmailsOf(as)

IsSuccessEnvelope(resp) ==
  /\ resp.status = OK
  /\ DOMAIN resp.body = {"status", "message", "data"}
  /\ resp.body.status = OK

IsErrorEnvelope(resp) ==
  /\ resp.status = INTERNAL_SERVER_ERROR
  /\ DOMAIN resp.body = {"success", "message", "error"}
  /\ resp.body.success = FALSE

Creates == {i \in Slots : req[i].kind = "create"}
Lists == {i \in Slots : req[i].kind = "list"}
Done(i) == req[i].pc = "done"
Failed(i) == Done(i) /\ req[i].err # NoErr
Succeeded(i) == Done(i) /\ req[i].err = NoErr

\* C1: a createAdmin call that fails leaves neither its user row nor its admin
\* row in the store; one that succeeds leaves both; at no time does the store
\* hold one row of a call without the other, nor a user without an admin
\* profile of the same email, nor the reverse.
C1_Atomicity ==
  /\ \A i \in Creates :
       /\ (req[i].wroteUser = {}) <=> (req[i].wroteAdmin = {})
       /\ req[i].wroteUser \subseteq users /\ req[i].wroteAdmin \subseteq admins
       /\ Failed(i) => (req[i].wroteUser = {} /\ req[i].wroteAdmin = {})
       /\ Succeeded(i) =>
            /\ req[i].wroteUser = {UserData(req[i].body, req[i].hashed)}
            /\ req[i].wroteAdmin = {AdminData(req[i].body)}
  /\ users = UNION {req[i].wroteUser : i \in Creates}
  /\ admins = UNION {req[i].wroteAdmin : i \in Creates}
  /\ Paired(users, admins)

\* The admin write failed after the user write had been made, and another
\* call succeeded.
C1_Witness ==
  /\ \E i \in Creates : /\ Failed(i) /\ req[i].failedAt = "txAdmin"
                        /\ UserData(req[i].body, req[i].hashed) \notin users
  /\ \E j \in Creates : Succeeded(j) /\ req[j].wroteAdmin # {}

\* C3: in every reachable state every admin row has exactly one user row with
\* the same email and role ADMIN.
C3_AdminUserInvariant ==
  \A a \in admins :
    Cardinality({u \in users : u.email = a.email /\ u.role = "ADMIN"}) = 1

C3_Witness ==
  /\ admins # {}
  /\ \E i \in Creates : Failed(i) /\ req[i].err = ErrUnique /\ req[i].dupAtStart

\* C4: whatever the interleaving, what a connection outside a transaction can
\* read never holds a user without an admin profile of the same email or the
\* reverse, and no listing ever read the admin table in such a state.
C4_Isolation ==
  /\ Paired(VisibleUsers, VisibleAdmins)
  /\ \A j \in Lists : Paired(req[j].seenUsers, req[j].seenAdmins)

\* A listing read the store while a transaction had written its user row, and
\* a transaction is open between its two writes now.
C4_Witness ==
  /\ \E j \in Lists : Done(j) /\ req[j].sawInFlight
  /\ \E i \in Creates : req[i].pc = "txAdmin" /\ req[i].pendingUser # {}

UnknownKeys(q) == (DOMAIN q) \ (AdminSchemaFields \cup {"searchTerm"})
KnownPart(q) == [k \in (DOMAIN q) \ UnknownKeys(q) |-> q[k]]

DataAccessErrorNames == {"PrismaClientKnownRequestError", "PrismaClientValidationError"}

NothingWritten(i) == req[i].wroteUser = {} /\ req[i].wroteAdmin = {}

\* C7 as stated: a createAdmin call whose email is that of a persisted user
\* fails with a data-access error reported to the caller and writes nothing.
C7_DuplicateEmailDataAccessError ==
  \A i \in Creates :
    (Done(i) /\ req[i].dupAtStart) =>
      /\ Len(req[i].sent) = 1 /\ IsErrorEnvelope(req[i].sent[1])
      /\ req[i].sent[1].body.message \in DataAccessErrorNames
      /\ NothingWritten(i)

\* C7 as amended: such a call always fails, is answered with the error
\* envelope of what was thrown, and writes nothing; the error is a data-access
\* error when the password can be hashed (the unique-constraint violation for
\* a schema-valid payload on a reachable store), and the hashing error when it
\* cannot.
C7_DuplicateEmailFails ==
  \A i \in Creates :
    (Done(i) /\ req[i].dupAtStart) =>
      /\ Failed(i) /\ NothingWritten(i)
      /\ req[i].sent = <<ErrorEnvelope(req[i].err, "Failed to create Admin")>>
      /\ IsErrorEnvelope(req[i].sent[1])
      /\ IF HashFails(req[i].body.password)
         THEN req[i].err = ErrHash
         ELSE /\ req[i].sent[1].body.message \in DataAccessErrorNames
              /\ (AdminCreateValid(AdminData(req[i].body)) /\ req[i].err # ErrConnection)
                   => req[i].err = ErrUnique

C7_Witness ==
  \E i \in Creates :
    /\ Done(i) /\ req[i].dupAtStart /\ req[i].err = ErrUnique
    /\ req[i].sent[1].body.error = ErrUnique.message
    /\ \E u \in users : u.email = req[i].body.admin.v.email

C9_ErrorEnvelope ==
  \A i \in Slots :
    Done(i) =>
      /\ Len(req[i].sent) = 1
      /\ (req[i].err # NoErr) => IsErrorEnvelope(req[i].sent[1])
      /\ (req[i].err = NoErr) => IsSuccessEnvelope(req[i].sent[1])
====
